---- MODULE Spec2Model ----
(***************************************************************************)
(* Model of schedule/parser/academic.py: the Subject registry, the cell    *)
(* text decoder (ScheduleEvent.from_cell), the grid normalizer             *)
(* (AcademicParser.merge_cells / get_clear_df), the grid partitioner       *)
(* (AcademicParser.parse_df / refactor_course_df) and the event builder    *)
(* (get_events_for_course / convert_separation).                           *)
(*                                                                         *)
(* A Python str is a sequence of one-character strings, so that the        *)
(* regular expressions of the source are computed on the characters.       *)
(***************************************************************************)
EXTENDS Integers, Sequences, FiniteSets, TLC

VARIABLES
    instances,  \* Subject.__instances__: insertion-ordered dict, as a sequence of [key, subj]
    nobj,       \* number of Subject objects constructed so far (object identity)
    returned,   \* history: what every Subject.from_str call so far returned, as [raw, subj]
    last,       \* the last call on the registry: [op, arg, ret, pre]
    pc,         \* the position of the run
    values,     \* get_clear_df: the "values" the spreadsheet returned (a grid)
    merges,     \* get_clear_df: target_sheet["merges"], in the order given
    steps,      \* merge_cells: df before the loop and after each iteration
    df,         \* the DataFrame get_clear_df returns
    raised,     \* the exception that ended the run, "" when none
    course,     \* one course section: the slice of the grid and its group names
    course_df,  \* refactor_course_df's result for it
    course_events,  \* list(get_events_for_course(course_df))
    separation_by_days,  \* parse_df's result: day name -> course name -> course_df
    all_events  \* convert_separation's result

subjVars == <<instances, nobj, returned, last>>

gridVars == <<values, merges, steps, df>>

courseVars == <<course, course_df, course_events>>

parseVars == <<separation_by_days, all_events>>

vars == <<instances, nobj, returned, last, pc, values, merges, steps, df,
          raised, course, course_df, course_events, separation_by_days, all_events>>

----------------------------------------------------------------------------
(* Strings *)

Whitespace == {" "}

IsWs(c) == c \in Whitespace

AllWs(s, a, b) == \A k \in a..b : IsWs(s[k])

Min(S) == CHOOSE x \in S : \A y \in S : x <= y

Max(S) == CHOOSE x \in S : \A y \in S : x >= y

Prefix(s, n) == SubSeq(s, 1, n)

\* F applied to the value of e: e is computed once and bound as a value.
Bind(e, F(_)) == CHOOSE y \in { F(x) : x \in {e} } : TRUE

\* Start positions at which r"\s+\(.*\)\s*$" matches: a whitespace run, "(",
\* anything, a ")" followed only by whitespace up to the end.
ParenMatches(s) ==
    { i \in 1..Len(s) :
        /\ IsWs(s[i])
        /\ \E j \in (i+1)..Len(s) :
              /\ AllWs(s, i, j-1)
              /\ s[j] = "("
              /\ \E k \in (j+1)..Len(s) : s[k] = ")" /\ AllWs(s, k+1, Len(s)) }

\* re.sub(r"\s+\(.*\)\s*$", "", s): the leftmost match runs to the end of s.
StripParenthetical(s) ==
    IF ParenMatches(s) = {} THEN s ELSE Prefix(s, Min(ParenMatches(s)) - 1)

\* Start positions at which r"\s+-.*$" matches: a whitespace run, then "-".
SuffixMatches(s) ==
    { i \in 1..Len(s) :
        /\ IsWs(s[i])
        /\ \E j \in (i+1)..Len(s) : AllWs(s, i, j-1) /\ s[j] = "-" }

\* re.sub(r"\s+-.*$", "", s)
StripSuffix(s) ==
    IF SuffixMatches(s) = {} THEN s ELSE Prefix(s, Min(SuffixMatches(s)) - 1)

\* re.sub(r"\s+$", "", s)
RStrip(s) ==
    LET tails == { i \in 1..Len(s) : AllWs(s, i, Len(s)) }
    IN  IF tails = {} THEN s ELSE Prefix(s, Min(tails) - 1)

\* The three substitutions of Subject.from_str, in the order of the source.
Normalize(s) ==
    Bind(s, LAMBDA s0 :
      Bind(StripParenthetical(s0), LAMBDA s1 :
        Bind(StripSuffix(s1), LAMBDA s2 : RStrip(s2))))

----------------------------------------------------------------------------
(* Subject registry *)

\* The number of distinct raw titles canonicalized in one run.
MaxTitles == 2

\* Optional[Subject] = None
NotFound == [id |-> 0, name |-> <<>>]

Keys(inst) == { inst[i].key : i \in 1..Len(inst) }

Lookup(inst, k) ==
    IF k \in Keys(inst)
    THEN inst[CHOOSE i \in 1..Len(inst) : inst[i].key = k].subj
    ELSE NotFound

\* Subject.from_str without the "if s not in cls.__instances__" test: a new
\* Subject is constructed and stored under the key on every call.
FromStrAlwaysNew(inst, n, s) ==
    LET k == Normalize(s)
        subj == [id |-> n + 1, name |-> k]
        e == [key |-> k, subj |-> subj]
    IN  [instances |-> IF k \in Keys(inst)
                       THEN [i \in 1..Len(inst) |-> IF inst[i].key = k THEN e ELSE inst[i]]
                       ELSE Append(inst, e),
         nobj |-> n + 1, ret |-> subj]

\* Subject.from_str(s) on registry inst with n objects constructed so far:
\* the registry, the object count and the Subject returned.
FromStrResult(inst, n, s) ==
    Bind(Normalize(s), LAMBDA k :
        IF k \notin Keys(inst)
        THEN LET subj == [id |-> n + 1, name |-> k]
             IN  [instances |-> Append(inst, [key |-> k, subj |-> subj]),
                  nobj |-> n + 1, ret |-> subj]
        ELSE [instances |-> inst, nobj |-> n, ret |-> Lookup(inst, k)])

\* Subject.get(s)
GetResult(inst, s) == Lookup(inst, s)

\* Subject.get_all(): list(cls.__instances__.values())
GetAllResult(inst) == [i \in 1..Len(inst) |-> inst[i].subj]

\* Raw titles: a bare title followed by an annotation of one of these shapes.
Bares == { <<"a">>, <<"b", " ", "c">> }

Shapes == { "plain", "par", "par_tight", "suf", "par_suf", "suf_par",
            "par_suf_tight", "par_trail" }

Compose(b, sh) ==
    CASE sh = "plain"         -> b
      [] sh = "par"           -> b \o <<" ", "(", "l", ")">>
      [] sh = "par_tight"     -> b \o <<"(", "l", ")">>
      [] sh = "suf"           -> b \o <<" ", "-", " ", "x">>
      [] sh = "par_suf"       -> b \o <<" ", "(", "l", ")", " ", "-", " ", "x">>
      [] sh = "suf_par"       -> b \o <<" ", "-", " ", "x", " ", "(", "l", ")">>
      [] sh = "par_suf_tight" -> b \o <<"(", "l", ")", "-", " ", "x">>
      [] sh = "par_trail"     -> b \o <<" ", " ", "(", "l", ")", " ">>

RawTitles == { Compose(b, sh) : b \in Bares, sh \in Shapes }

BareOf(raw) == CHOOSE b \in Bares : \E sh \in Shapes : Compose(b, sh) = raw

\* The names Subject.get is asked for: registered or not.
Names == { Normalize(t) : t \in RawTitles }

Canonicalized == { r.raw : r \in returned }

from_str(s) ==
    /\ s \in Canonicalized \/ Cardinality(Canonicalized) < MaxTitles
    /\ LET r == FromStrResult(instances, nobj, s)
       IN  /\ instances' = r.instances
           /\ nobj' = r.nobj
           /\ returned' = returned \cup {[raw |-> s, subj |-> r.ret]}
           /\ last' = [op |-> "from_str", arg |-> s, ret |-> <<r.ret>>, pre |-> instances]

get(s) ==
    /\ last' = [op |-> "get", arg |-> s, ret |-> <<GetResult(instances, s)>>, pre |-> instances]
    /\ UNCHANGED <<instances, nobj, returned>>

get_all ==
    /\ last' = [op |-> "get_all", arg |-> <<>>, ret |-> GetAllResult(instances), pre |-> instances]
    /\ UNCHANGED <<instances, nobj, returned>>

NoCall == [op |-> "none", arg |-> <<>>, ret |-> <<>>, pre |-> <<>>]

EmptyRegistry ==
    /\ instances = <<>>
    /\ nobj = 0
    /\ returned = {}
    /\ last = NoCall

NoGrid ==
    /\ values = <<>>
    /\ merges = <<>>
    /\ steps = <<>>
    /\ df = <<>>

NoCourse ==
    /\ course = <<>>
    /\ course_df = <<>>
    /\ course_events = <<>>

NoParse ==
    /\ separation_by_days = <<>>
    /\ all_events = <<>>

InitSubject ==
    /\ EmptyRegistry
    /\ pc = "registry"
    /\ raised = ""
    /\ NoGrid
    /\ NoCourse
    /\ NoParse

NextSubject ==
    /\ \/ \E s \in RawTitles : from_str(s)
       \/ \E s \in Names : get(s)
       \/ get_all
    /\ UNCHANGED <<pc, raised, gridVars, courseVars, parseVars>>

SpecSubject == InitSubject /\ [][NextSubject]_vars

----------------------------------------------------------------------------
(* Grid normalizer: AcademicParser.get_clear_df and merge_cells *)

\* df.shape of the grids the normalizer is run on
Shape == <<2, 2>>

max_x == Shape[1]

max_y == Shape[2]

\* The number of merge ranges of a sheet.
MaxMerges == 2

\* A cell pd.DataFrame(data=values) leaves missing (None)
NaN == <<"NaN">>

Empty == <<>>

Letters == <<"p", "q", "r", "s", "t", "u", "v", "w">>

\* A text of its own for every cell of the grid
Text(r, c) == <<Letters[r * max_y + c + 1]>>

\* What an empty cell of the sheet comes as: '', whitespace, or a cell
\* missing from a ragged row (None).
Blanks == <<Empty, <<" ">>, NaN>>

BlankAt(r, c) == Blanks[((r * max_y + c) % Len(Blanks)) + 1]

\* The grids of the sheet: every cell holds its own text or is empty.
RawGrids ==
    { g \in [0..(max_x - 1) -> [0..(max_y - 1) -> { BlankAt(r, c) : r \in 0..(max_x - 1), c \in 0..(max_y - 1) }
                                                  \cup { Text(r, c) : r \in 0..(max_x - 1), c \in 0..(max_y - 1) }]] :
        \A r \in 0..(max_x - 1), c \in 0..(max_y - 1) :
            g[r][c] \in {BlankAt(r, c), Text(r, c)} }

\* Merge ranges as the sheets API gives them: half-open, joining at least two
\* cells; the start or the end may lie outside the grid.
Ranges ==
    { m \in [x0 : 0..max_x, x1 : 1..(max_x + 1), y0 : 0..max_y, y1 : 1..(max_y + 1)] :
        m.x0 < m.x1 /\ m.y0 < m.y1 /\ (m.x1 - m.x0) * (m.y1 - m.y0) >= 2 }

MergeLists == UNION { [1..n -> Ranges] : n \in 0..MaxMerges }

\* df.replace(r'^\s*$', '', regex=True) on one cell: None is left as it is.
Blank(v) == IF v # NaN /\ AllWs(v, 1, Len(v)) THEN Empty ELSE v

CleanDf(g) == [r \in DOMAIN g |-> [c \in DOMAIN g[r] |-> Blank(g[r][c])]]

\* merge_cells broadcasting along the first row of the range only.
MergeOneRowOnly(g, m) ==
    IF m.x0 < max_x /\ m.y0 < max_y
    THEN [r \in DOMAIN g |-> [c \in DOMAIN g[r] |->
             IF r = m.x0 /\ c >= m.y0 /\ c < m.y1
             THEN g[m.x0][m.y0] ELSE g[r][c]]]
    ELSE g

\* merge_cells skipping every range that touches a coordinate outside the grid.
MergeOneSkipTouching(g, m) ==
    IF m.x1 <= max_x /\ m.y1 <= max_y
    THEN [r \in DOMAIN g |-> [c \in DOMAIN g[r] |->
             IF r >= m.x0 /\ r < m.x1 /\ c >= m.y0 /\ c < m.y1
             THEN g[m.x0][m.y0] ELSE g[r][c]]]
    ELSE g

\* One iteration of the loop of merge_cells; iloc slices clip at the shape.
MergeOne(g, m) ==
    IF m.x0 < max_x /\ m.y0 < max_y
    THEN [r \in DOMAIN g |-> [c \in DOMAIN g[r] |->
             IF r >= m.x0 /\ r < m.x1 /\ c >= m.y0 /\ c < m.y1
             THEN g[m.x0][m.y0] ELSE g[r][c]]]
    ELSE g

\* The grids merge_cells goes through: before the loop, after each iteration.
RECURSIVE MergeSteps(_, _, _)
MergeSteps(g, ms, i) ==
    IF i > Len(ms) THEN <<g>>
    ELSE <<g>> \o MergeSteps(MergeOne(g, ms[i]), ms, i + 1)

\* df.fillna('', inplace=True)
FillNa(g) == [r \in DOMAIN g |-> [c \in DOMAIN g[r] |-> IF g[r][c] = NaN THEN Empty ELSE g[r][c]]]

\* "for y in range(1, max_y)": an empty cell of row 0 takes its left neighbour's value.
RECURSIVE FillCourses(_, _)
FillCourses(g, y) ==
    IF y >= max_y THEN g
    ELSE FillCourses(IF g[0][y] = Empty THEN [g EXCEPT ![0][y] = g[0][y - 1]] ELSE g, y + 1)

get_clear_df(ms) ==
    /\ pc = "fetch"
    /\ LET st == MergeSteps(CleanDf(values), ms, 1)
       IN  /\ merges' = ms
           /\ steps' = st
           /\ df' = FillCourses(FillNa(st[Len(st)]), 1)
    /\ pc' = "ready"
    /\ UNCHANGED <<values, subjVars, raised, courseVars, parseVars>>

InitGrid ==
    /\ EmptyRegistry
    /\ pc = "fetch"
    /\ values \in RawGrids
    /\ merges = <<>>
    /\ steps = <<>>
    /\ df = <<>>
    /\ raised = ""
    /\ NoCourse
    /\ NoParse

NextGrid == pc = "fetch" /\ \E ms \in MergeLists : get_clear_df(ms)

SpecGrid == InitGrid /\ [][NextGrid]_vars

----------------------------------------------------------------------------
(* Cell text decoder: ScheduleEvent.from_cell *)

\* CURRENT_YEAR = datetime.datetime.now().year
CURRENT_YEAR == 2023

Digits == <<"0", "1", "2", "3", "4", "5", "6", "7", "8", "9">>

IsDigit(c) == \E i \in 1..Len(Digits) : Digits[i] = c

DigitVal(c) == (CHOOSE i \in 1..Len(Digits) : Digits[i] = c) - 1

\* int(s) of a non-empty run of digits
RECURSIVE ParseInt(_)
ParseInt(s) ==
    IF Len(s) = 0 THEN 0
    ELSE 10 * ParseInt(SubSeq(s, 1, Len(s) - 1)) + DigitVal(s[Len(s)])

AllDigits(s, a, b) == a <= b /\ \A k \in a..b : IsDigit(s[k])

\* str.strip()
Strip(s) ==
    LET keep == { i \in 1..Len(s) : ~IsWs(s[i]) }
    IN  IF keep = {} THEN <<>> ELSE SubSeq(s, Min(keep), Max(keep))

\* The literal head of r"\(ONLY ON (\d+)/(\d+)\)"
OnlyOnHead == <<"(", "O", "N", "L", "Y", " ", "O", "N", " ">>

\* The end of the longest run of digits of s that starts at a (a - 1 if none)
DigitsEnd(s, a) == Max({ b \in (a - 1)..Len(s) : \A k \in a..b : IsDigit(s[k]) })

\* The matches of r"\(ONLY ON (\d+)/(\d+)\)" in s, as [start, slash, close]:
\* the digits of group 1 lie before the slash, those of group 2 after it.
OnlyOnMatches(s) ==
    { [start |-> i,
       slash |-> DigitsEnd(s, i + Len(OnlyOnHead)) + 1,
       close |-> DigitsEnd(s, DigitsEnd(s, i + Len(OnlyOnHead)) + 2) + 1] :
        i \in { i \in 1..Len(s) :
                  /\ s[i] = "("
                  /\ i + Len(OnlyOnHead) - 1 <= Len(s)
                  /\ SubSeq(s, i, i + Len(OnlyOnHead) - 1) = OnlyOnHead
                  /\ LET a == i + Len(OnlyOnHead)
                         e1 == DigitsEnd(s, a)
                         e2 == DigitsEnd(s, e1 + 2)
                     IN  /\ e1 >= a
                         /\ e1 + 1 <= Len(s) /\ s[e1 + 1] = "/"
                         /\ e2 >= e1 + 2
                         /\ e2 + 1 <= Len(s) /\ s[e2 + 1] = ")" } }

IsLeap(y) == (y % 4 = 0 /\ y % 100 # 0) \/ y % 400 = 0

DaysIn(month, year) ==
    CASE month \in {4, 6, 9, 11} -> 30
      [] month = 2 -> IF IsLeap(year) THEN 29 ELSE 28
      [] OTHER -> 31

\* datetime.datetime(year, month=..., day=...) raises ValueError on no such date.
ValidDate(year, month, day) ==
    month \in 1..12 /\ day >= 1 /\ day <= DaysIn(month, year)

\* The location handling of from_cell (lines 109-113): the location text left
\* and the override date, or the ValueError of datetime.datetime.
\* Group 1 of the match is passed as the month, group 2 as the day.
DecodeLocation(location) ==
    IF OnlyOnMatches(location) = {}
    THEN [err |-> FALSE, location |-> location, only_on |-> <<>>]
    ELSE LET m == CHOOSE x \in OnlyOnMatches(location) :
                      \A y \in OnlyOnMatches(location) : x.start <= y.start
             g1 == ParseInt(SubSeq(location, m.start + Len(OnlyOnHead), m.slash - 1))
             g2 == ParseInt(SubSeq(location, m.slash + 1, m.close - 1))
         IN  IF ValidDate(CURRENT_YEAR, g1, g2)
             THEN [err |-> FALSE,
                   location |-> Strip(Prefix(location, m.start - 1)),
                   only_on |-> <<[year |-> CURRENT_YEAR, month |-> g1, day |-> g2]>>]
             ELSE [err |-> TRUE, location |-> <<>>, only_on |-> <<>>]

\* re.search(r"\((.+)\)", _title): the leftmost "(" that has a ")" at least one
\* character further on; the group runs to the last ")". Whitespace is then
\* removed from the group. <<>> when there is no match.
EventTypeOf(title) ==
    LET opens == { i \in 1..Len(title) :
                      title[i] = "(" /\ \E k \in (i + 2)..Len(title) : title[k] = ")" }
    IN  IF opens = {} THEN <<>>
        ELSE LET i == Min(opens)
                 k == Max({ j \in (i + 2)..Len(title) : title[j] = ")" })
             IN  SelectSeq(SubSeq(title, i + 1, k - 1), LAMBDA c : ~IsWs(c))

\* ScheduleEvent(group=..., start_time=..., end_time=...): an Optional field
\* is <<>> (None) or <<value>>.
NewEvent(group, start_time, end_time) ==
    [subject |-> <<>>, start_time |-> <<start_time>>, end_time |-> <<end_time>>,
     day |-> <<>>, dtstamp |-> <<>>, location |-> <<>>, instructor |-> <<>>,
     event_type |-> <<>>, recurrence |-> <<>>, only_on_specific_date |-> <<>>,
     group |-> <<group>>, course |-> <<>>]

\* ScheduleEvent.from_cell(lines) on event ev, with registry inst and n
\* Subjects constructed: the error raised, if any, the event and the registry.
FromCell(ev, lines, inst, n) ==
    Bind(SelectSeq(lines, LAMBDA l : l # Empty), LAMBDA it :
        IF Len(it) = 0
        THEN [err |-> "StopIteration", event |-> ev, instances |-> inst, nobj |-> n]
        ELSE Bind(FromStrResult(inst, n, it[1]), LAMBDA r :
             Bind(IF Len(it) >= 3 THEN DecodeLocation(it[3])
                  ELSE [err |-> FALSE, location |-> <<>>, only_on |-> <<>>], LAMBDA loc :
             LET title == it[1]
                 instructor == IF Len(it) >= 2 THEN it[2] ELSE <<>>
                 event_type == EventTypeOf(title)
             IN  IF loc.err
                 THEN [err |-> "ValueError", event |-> ev,
                       instances |-> r.instances, nobj |-> r.nobj]
                 ELSE [err |-> "",
                       event |-> [ev EXCEPT !.subject = <<r.ret>>,
                                            !.instructor = IF instructor # <<>> THEN <<instructor>> ELSE @,
                                            !.location = IF loc.location # <<>> THEN <<loc.location>> ELSE @,
                                            !.event_type = IF event_type # <<>> THEN <<event_type>> ELSE @,
                                            !.only_on_specific_date = IF loc.only_on # <<>> THEN loc.only_on ELSE @],
                       instances |-> r.instances, nobj |-> r.nobj])))

----------------------------------------------------------------------------
(* Course sections: refactor_course_df and get_events_for_course *)

\* The characters of the time-slot labels, in code point order
CharOrder == <<"-", "0", "1", "2", "3", "4", "5", "6", "7", "8", "9", ":">>

Rank(c) == CHOOSE i \in 1..Len(CharOrder) : CharOrder[i] = c

\* a < b for Python strings: by the first character that differs, a proper
\* prefix being the smaller
StrLess(a, b) ==
    \E i \in 1..(Len(a) + 1) :
        /\ \A k \in 1..(i - 1) : k <= Len(b) /\ a[k] = b[k]
        /\ i <= Len(b)
        /\ i = Len(a) + 1 \/ Rank(a[i]) < Rank(b[i])

\* sorted(S)
RECURSIVE Sorted(_)
Sorted(S) ==
    IF S = {} THEN <<>>
    ELSE LET m == CHOOSE x \in S : \A y \in S \ {x} : StrLess(x, y)
         IN  <<m>> \o Sorted(S \ {m})

\* The distinct values of a sequence in the order they first appear
RECURSIVE FirstSeen(_)
FirstSeen(q) ==
    IF Len(q) = 0 THEN <<>>
    ELSE LET h == FirstSeen(SubSeq(q, 1, Len(q) - 1))
             x == q[Len(q)]
         IN  IF \E i \in 1..Len(h) : h[i] = x THEN h ELSE Append(h, x)

Range(q) == { q[i] : i \in 1..Len(q) }

\* The group keys left in the order of their first row (sort=False).
GroupKeysUnsorted(times) == FirstSeen(times)

\* The group keys of groupby("time"): sort=True, the default.
GroupKeys(times) == Sorted(Range(times))

\* The rows of one group when only the first run of adjacent rows is taken.
RowsOfFirstRun(times, key) ==
    LET first == Min({ i \in 1..Len(times) : times[i] = key })
    IN  SelectSeq([i \in 1..Len(times) |-> i],
                  LAMBDA i : i >= first /\ \A k \in first..i : times[k] = key)

\* The rows of one group: those of the key, top to bottom.
RowsOf(times, key) == SelectSeq([i \in 1..Len(times) |-> i], LAMBDA i : times[i] = key)

\* refactor_course_df(course_df, group_names): sl is the slice of the grid,
\* [ncols, rows], column 1 of which holds the time-slot labels. The result is
\* [err, columns, index, data]: data[i][j] is the list of cell texts of slot
\* index[i] and group columns[j]. Setting the column names raises ValueError
\* when their number differs from the number of columns of the slice.
refactor_course_df(sl, group_names) ==
    IF sl.ncols # 1 + Len(group_names)
    THEN [err |-> "ValueError", columns |-> <<>>, index |-> <<>>, data |-> <<>>]
    ELSE LET times == [i \in 1..Len(sl.rows) |-> sl.rows[i][1]]
             keys == GroupKeys(times)
         IN  [err |-> "",
              columns |-> group_names,
              index |-> keys,
              data |-> [i \in 1..Len(keys) |->
                          [j \in 1..Len(group_names) |->
                              LET rs == RowsOf(times, keys[i])
                              IN  [k \in 1..Len(rs) |-> sl.rows[rs[k]][j + 1]]]]]

LowerCase == <<"b", "e", "g">>

UpperCase == <<"B", "E", "G">>

\* str.upper() on one character
Upper(c) ==
    IF \E i \in 1..Len(LowerCase) : LowerCase[i] = c
    THEN UpperCase[CHOOSE i \in 1..Len(LowerCase) : LowerCase[i] = c]
    ELSE c

\* remove_pattern.sub('', s), remove_pattern = r"\(.*\)": from the first "("
\* that has a ")" after it to the last ")"
RemoveParens(s) ==
    LET opens == { i \in 1..Len(s) : s[i] = "(" /\ \E k \in (i + 1)..Len(s) : s[k] = ")" }
    IN  IF opens = {} THEN s
        ELSE LET i == Min(opens)
                 k == Max({ j \in (i + 1)..Len(s) : s[j] = ")" })
             IN  SubSeq(s, 1, i - 1) \o SubSeq(s, k + 1, Len(s))

format_group_name(name) == Strip(RemoveParens([i \in 1..Len(name) |-> Upper(name[i])]))

\* datetime.datetime.strptime(s, '%H:%M').time(): one or two digits, ":", one
\* or two digits, hour below 24 and minute below 60; ValueError otherwise.
ParseTime(s) ==
    LET colons == { i \in 1..Len(s) : s[i] = ":" }
        c == Min(colons)
        ok == /\ Cardinality(colons) = 1
              /\ c \in 2..3 /\ Len(s) - c \in 1..2
              /\ AllDigits(s, 1, c - 1) /\ AllDigits(s, c + 1, Len(s))
              /\ ParseInt(SubSeq(s, 1, c - 1)) < 24
              /\ ParseInt(SubSeq(s, c + 1, Len(s))) < 60
    IN  IF ok
        THEN [err |-> FALSE, time |-> [hour |-> ParseInt(SubSeq(s, 1, c - 1)),
                                       minute |-> ParseInt(SubSeq(s, c + 1, Len(s)))]]
        ELSE [err |-> TRUE, time |-> [hour |-> 0, minute |-> 0]]

\* start_time, end_time = timeslot.split('-') and the two strptime calls
ParseTimeslot(timeslot) ==
    LET dashes == { i \in 1..Len(timeslot) : timeslot[i] = "-" }
        d == Min(dashes)
        a == ParseTime(SubSeq(timeslot, 1, d - 1))
        b == ParseTime(SubSeq(timeslot, d + 1, Len(timeslot)))
    IN  IF Cardinality(dashes) # 1 \/ a.err \/ b.err
        THEN [err |-> TRUE, start_time |-> a.time, end_time |-> a.time]
        ELSE [err |-> FALSE, start_time |-> a.time, end_time |-> b.time]

\* get_events_for_course from the k-th (slot, group) pair on, slots outermost:
\* [err, events, instances, nobj]. An exception ends the generator; the
\* StopIteration of next(iterator) in from_cell leaves it as a RuntimeError.
RECURSIVE EventsFrom(_, _, _, _, _)
EventsFrom(cdf, k, acc, inst, n) ==
    LET ncols == Len(cdf.columns)
        i == ((k - 1) \div ncols) + 1
        j == ((k - 1) % ncols) + 1
    IN  IF ncols = 0 \/ k > Len(cdf.index) * ncols
        THEN [err |-> "", events |-> acc, instances |-> inst, nobj |-> n]
        ELSE Bind(ParseTimeslot(cdf.index[i]), LAMBDA ts :
             IF ts.err
             THEN [err |-> "ValueError", events |-> <<>>, instances |-> inst, nobj |-> n]
             ELSE Bind(NewEvent(format_group_name(cdf.columns[j]), ts.start_time, ts.end_time),
                       LAMBDA ev :
                  Bind(IF Len(cdf.data[i][j]) > 0
                       THEN FromCell(ev, cdf.data[i][j], inst, n)
                       ELSE [err |-> "", event |-> ev, instances |-> inst, nobj |-> n],
                       LAMBDA r :
                  IF r.err # ""
                  THEN [err |-> IF r.err = "StopIteration" THEN "RuntimeError" ELSE r.err,
                        events |-> <<>>, instances |-> r.instances, nobj |-> r.nobj]
                  ELSE EventsFrom(cdf, k + 1, Append(acc, r.event), r.instances, r.nobj))))

\* list(get_events_for_course(course_df))
get_events_for_course(cdf, inst, n) == EventsFrom(cdf, 1, <<>>, inst, n)

----------------------------------------------------------------------------
(* One course section: refactor_course_df, then get_events_for_course *)

\* The number of grid rows of a course section
MaxSlotRows == 3

\* Time-slot labels: "9:00-10:30" and "10:40-12:10"
TimeLabels ==
    { <<"9", ":", "0", "0", "-", "1", "0", ":", "3", "0">>,
      <<"1", "0", ":", "4", "0", "-", "1", "2", ":", "1", "0">> }

\* str(n) for n below 100
NumStr(n) == (IF n >= 10 THEN <<Digits[(n \div 10) + 1]>> ELSE <<>>) \o <<Digits[(n % 10) + 1]>>

Room == <<"1">>

\* "1 (ONLY ON d/m)"
RoomOnlyOn(d, m) == Room \o <<" ">> \o OnlyOnHead \o NumStr(d) \o <<"/">> \o NumStr(m) \o <<")">>

\* The (D, M) of the annotations: 14 June and 6 May
OnlyOnDates == { <<14, 6>>, <<6, 5>> }

\* The group names of row 1 over the section's group columns
GroupNames == << <<"g", "1">>, <<"g", "2", " ", "(", "e", ")">> >>

\* A slot is laid out on successive rows: title, instructor, location.
RowTexts(k) ==
    CASE k % 3 = 1 -> { Empty, <<"c", " ", "(", "l", ")">> }
      [] k % 3 = 2 -> { Empty, <<"d">> }
      [] OTHER     -> { Empty, Room } \cup { RoomOnlyOn(x[1], x[2]) : x \in OnlyOnDates }

\* The k-th row of a slice: a label, then one text per group column
SliceRows(k) ==
    { [j \in 1..(1 + Len(GroupNames)) |-> IF j = 1 THEN t ELSE f[j]] :
        t \in TimeLabels, f \in [2..(1 + Len(GroupNames)) -> RowTexts(k)] }

RECURSIVE RowLists(_)
RowLists(n) ==
    IF n = 0 THEN { <<>> }
    ELSE { Append(q, r) : q \in RowLists(n - 1), r \in SliceRows(n) }

\* The slices week_df.iloc[1:, start_y:end_y] of n rows
SlicesOf(n) == { [ncols |-> 1 + Len(GroupNames), rows |-> rows] : rows \in RowLists(n) }

CourseSlices == UNION { SlicesOf(n) : n \in 1..MaxSlotRows }

RefactorCourse ==
    /\ pc = "refactor"
    /\ \E r \in { refactor_course_df(course.slice, course.group_names) } :
           IF r.err # ""
           THEN /\ raised' = r.err
                /\ pc' = "error"
                /\ UNCHANGED course_df
           ELSE /\ course_df' = [columns |-> r.columns, index |-> r.index, data |-> r.data]
                /\ pc' = "events"
                /\ UNCHANGED raised
    /\ UNCHANGED <<subjVars, gridVars, course, course_events, parseVars>>

GetEvents ==
    /\ pc = "events"
    /\ \E r \in { get_events_for_course(course_df, instances, nobj) } :
           /\ instances' = r.instances
           /\ nobj' = r.nobj
           /\ raised' = r.err
           /\ course_events' = r.events
           /\ pc' = IF r.err # "" THEN "error" ELSE "done"
    /\ UNCHANGED <<returned, last, gridVars, course, course_df, parseVars>>

InitCourse ==
    /\ EmptyRegistry
    /\ NoGrid
    /\ pc = "refactor"
    /\ raised = ""
    /\ course \in { [slice |-> sl, group_names |-> GroupNames] : sl \in CourseSlices }
    /\ course_df = <<>>
    /\ course_events = <<>>
    /\ NoParse

NextCourse ==
    \/ RefactorCourse
    \/ GetEvents

SpecCourse == InitCourse /\ [][NextCourse]_vars

----------------------------------------------------------------------------
(* The whole sheet: parse_df and convert_separation *)

MONDAY == <<"MONDAY">>

TUESDAY == <<"TUESDAY">>

\* config.DAYS, the weekday names a sheet may hold
DAYS == <<MONDAY, TUESDAY>>

IsDay(v) == \E i \in 1..Len(DAYS) : DAYS[i] = v

\* df.shape
NRows(g) == Cardinality(DOMAIN g)

NCols(g) == Cardinality(DOMAIN g[0])

\* The numbers of S in ascending order (np.argwhere(mask).flatten().tolist())
Ascending(S) == [i \in 1..Cardinality(S) |-> CHOOSE x \in S : Cardinality({ y \in S : y < x }) = i - 1]

\* itertools.pairwise
pairwise(q) == [i \in 1..(Len(q) - 1) |-> <<q[i], q[i + 1]>>]

\* The rows whose column-0 cell is a weekday name
week_indexes(g) == Ascending({ r \in 0..(NRows(g) - 1) : IsDay(g[r][0]) })

\* pairwise(week_indexes): the pairing without the sentinel max_x.
DaySectionsNoSentinel(g) == pairwise(week_indexes(g))

\* pairwise(week_indexes + [max_x]): the day sections [start_x, end_x)
DaySections(g) == pairwise(week_indexes(g) \o <<NRows(g)>>)

\* The columns of the day row start_x that hold a weekday name
day_indexes(g, start_x) == Ascending({ c \in 0..(NCols(g) - 1) : IsDay(g[start_x][c]) })

\* pairwise(day_indexes): the pairing without the sentinel max_y.
CourseSectionsNoSentinel(g, start_x) == pairwise(day_indexes(g, start_x))

\* pairwise(day_indexes + [max_y]): the course sections [start_y, end_y)
CourseSections(g, start_x) == pairwise(day_indexes(g, start_x) \o <<NCols(g)>>)

\* d[k] = v on a dict kept as the sequence of its items in insertion order:
\* a key already there keeps its place and takes the new value.
DictSet(d, k, v) ==
    IF \E i \in 1..Len(d) : d[i].key = k
    THEN [i \in 1..Len(d) |-> IF d[i].key = k THEN [key |-> k, val |-> v] ELSE d[i]]
    ELSE Append(d, [key |-> k, val |-> v])

\* defaultdict(dict)[k]
DictGet(d, k) ==
    IF \E i \in 1..Len(d) : d[i].key = k
    THEN d[CHOOSE i \in 1..Len(d) : d[i].key = k].val
    ELSE <<>>

\* The body of the inner loop of parse_df for one course section:
\* [err, course_name, course_df]. courses_line and groups_line are rows 0
\* and 1 without column 0, so position start_y is column start_y + 1;
\* iloc[start_y] past the end raises IndexError, the slice is cut at the end.
CourseSection(g, start_x, end_x, start_y, end_y) ==
    IF start_y + 1 > NCols(g) - 1
    THEN [err |-> "IndexError", course_name |-> <<>>, course_df |-> <<>>]
    ELSE LET last_y == Min({end_y, NCols(g) - 1})
             group_names == SelectSeq([k \in 1..(last_y - start_y) |-> g[1][start_y + k]],
                                      LAMBDA x : x # Empty)
             sl == [ncols |-> end_y - start_y,
                    rows |-> [i \in 1..(end_x - start_x - 1) |->
                                [j \in 1..(end_y - start_y) |-> g[start_x + i][start_y + j - 1]]]]
         IN  Bind(refactor_course_df(sl, group_names), LAMBDA r :
                 [err |-> r.err, course_name |-> g[0][start_y + 1],
                  course_df |-> [columns |-> r.columns, index |-> r.index, data |-> r.data]])

\* The inner loop of parse_df from the k-th course section of a day on:
\* by_courses is separation_by_days[day_name].
RECURSIVE ParseCourses(_, _, _, _, _, _)
ParseCourses(g, start_x, end_x, cs, k, by_courses) ==
    IF k > Len(cs) THEN [err |-> "", val |-> by_courses]
    ELSE Bind(CourseSection(g, start_x, end_x, cs[k][1], cs[k][2]), LAMBDA r :
             IF r.err # "" THEN [err |-> r.err, val |-> <<>>]
             ELSE Bind(DictSet(by_courses, r.course_name, r.course_df), LAMBDA d :
                      ParseCourses(g, start_x, end_x, cs, k + 1, d)))

\* The outer loop of parse_df from the k-th day section on
RECURSIVE ParseDays(_, _, _, _)
ParseDays(g, ds, k, sep) ==
    IF k > Len(ds) THEN [err |-> "", sep |-> sep]
    ELSE LET start_x == ds[k][1]
             end_x == ds[k][2]
             day_name == g[start_x][0]
         IN  Bind(ParseCourses(g, start_x, end_x, CourseSections(g, start_x), 1,
                               DictGet(sep, day_name)), LAMBDA r :
                 IF r.err # "" THEN [err |-> r.err, sep |-> <<>>]
                 ELSE Bind(DictSet(sep, day_name, r.val), LAMBDA d :
                          ParseDays(g, ds, k + 1, d)))

\* parse_df(df): [err, sep]
parse_df(g) == Bind(DaySections(g), LAMBDA ds : ParseDays(g, ds, 1, <<>>))

\* from_date, a Wednesday: dates are day numbers, day 0 a Monday
very_first_date == 2

\* until_date
very_last_date == 100

\* datetime.datetime.now()
now_dtstamp == "now"

\* date.weekday(): 0 is Monday
WeekdayOf(date) == date % 7

\* utils.weekday_converter[day_name]
weekday_converter(day_name) == (CHOOSE i \in 1..Len(DAYS) : DAYS[i] = day_name) - 1

\* utils.nearest_weekday(date, weekday): the first date on or after date
\* that falls on the weekday
nearest_weekday(date, weekday) == date + ((weekday + 7 - WeekdayOf(date)) % 7)

get_weekday_rrule(end_date) == [FREQ |-> "WEEKLY", INTERVAL |-> 1, UNTIL |-> end_date]

\* The fields convert_separation sets on every event of a course
Stamp(events, day, rrule, course_name) ==
    [i \in 1..Len(events) |->
        [events[i] EXCEPT !.day = <<day>>, !.recurrence = <<rrule>>,
                          !.course = <<course_name>>, !.dtstamp = <<now_dtstamp>>]]

\* The inner loop of convert_separation from the k-th course of a day on
RECURSIVE ConvertCourses(_, _, _, _, _, _, _)
ConvertCourses(by_courses, k, day, rrule, acc, inst, n) ==
    IF k > Len(by_courses) THEN [err |-> "", events |-> acc, instances |-> inst, nobj |-> n]
    ELSE Bind(get_events_for_course(by_courses[k].val, inst, n), LAMBDA r :
             IF r.err # ""
             THEN [err |-> r.err, events |-> <<>>, instances |-> r.instances, nobj |-> r.nobj]
             ELSE Bind(acc \o Stamp(r.events, day, rrule, by_courses[k].key), LAMBDA a :
                      ConvertCourses(by_courses, k + 1, day, rrule, a, r.instances, r.nobj)))

\* The outer loop of convert_separation from the k-th day on
RECURSIVE ConvertDays(_, _, _, _, _, _, _)
ConvertDays(sep, k, first_date, rrule, acc, inst, n) ==
    IF k > Len(sep) THEN [err |-> "", events |-> acc, instances |-> inst, nobj |-> n]
    ELSE Bind(ConvertCourses(sep[k].val, 1,
                             nearest_weekday(first_date, weekday_converter(sep[k].key)),
                             rrule, acc, inst, n), LAMBDA r :
             IF r.err # "" THEN r
             ELSE ConvertDays(sep, k + 1, first_date, rrule, r.events, r.instances, r.nobj))

\* convert_separation(separation_by_days, very_first_date, very_last_date)
\* with registry inst and n Subjects constructed: [err, events, instances, nobj]
convert_separation(sep, first_date, last_date, inst, n) ==
    ConvertDays(sep, 1, first_date, get_weekday_rrule(last_date), <<>>, inst, n)

\* The rows of a sheet below the two header rows
BodyRows == 5

\* What a column right of column 0 is: the time column that opens a course
\* section, a group column, or an unnamed spacer column. A time column is
\* followed by another column, and at most one column is a spacer.
ColumnKinds ==
    { <<"group", "group", "group">>, <<"group", "time", "group">>,
      <<"spacer", "group", "group">>, <<"group", "spacer", "group">>,
      <<"group", "group", "spacer">>, <<"spacer", "time", "group">>,
      <<"group", "time", "spacer">> }

\* Row 0 after the forward fill: a course name over every column
CourseNames ==
    { << <<"A">>, <<"A">>, <<"A">> >>, << <<"A">>, <<"A">>, <<"B">> >>,
      << <<"A">>, <<"B">>, <<"B">> >>, << <<"A">>, <<"B">>, <<"A">> >> }

RowLetters == <<"n", "o", "p", "q", "r", "s", "t", "u", "v">>

\* A text of its own for the cell of row r and column c
CellText(r, c) == <<RowLetters[r + 1], Digits[c + 1]>>

\* The name of the group of column c
GroupNameAt(c) == <<"g", Digits[c + 1]>>

SlotLabels == { <<t>> : t \in TimeLabels }

DayLabels == { <<DAYS[i]>> : i \in 1..Len(DAYS) }

\* The column-0 values of n body rows: a weekday name is followed by at
\* least one time-slot row.
RECURSIVE BodyLabels(_)
BodyLabels(n) ==
    IF n = 0 THEN { <<>> }
    ELSE { q \o l : q \in { q \in BodyLabels(n - 1) : n = 1 \/ ~IsDay(q[n - 1]) }, l \in DayLabels }
         \cup { q \o l : q \in BodyLabels(n - 1), l \in SlotLabels }

\* The sheet of column-0 values labels, column kinds and course names names
Sheet(labels, kinds, names) ==
    [r \in 0..(Len(labels) + 1) |->
        [c \in 0..Len(kinds) |->
            IF r = 0 THEN (IF c = 0 THEN Empty ELSE names[c])
            ELSE IF r = 1 THEN (IF c > 0 /\ kinds[c] = "group" THEN GroupNameAt(c) ELSE Empty)
            ELSE IF c = 0 \/ kinds[c] = "time" THEN labels[r - 1]
            ELSE IF kinds[c] = "group" /\ ~IsDay(labels[r - 1]) THEN CellText(r, c)
            ELSE Empty]]

\* The normalized sheets parse_df is given
Sheets ==
    { Sheet(labels, kinds, names) :
        labels \in { q \in BodyLabels(BodyRows) : ~IsDay(q[BodyRows]) },
        kinds \in ColumnKinds, names \in CourseNames }

ParseDf ==
    /\ pc = "parse"
    /\ \E r \in { parse_df(df) } :
           IF r.err # ""
           THEN /\ raised' = r.err
                /\ pc' = "error"
                /\ UNCHANGED separation_by_days
           ELSE /\ separation_by_days' = r.sep
                /\ pc' = "convert"
                /\ UNCHANGED raised
    /\ UNCHANGED <<subjVars, gridVars, courseVars, all_events>>

ConvertSeparation ==
    /\ pc = "convert"
    /\ \E r \in { convert_separation(separation_by_days, very_first_date, very_last_date,
                                     instances, nobj) } :
           /\ instances' = r.instances
           /\ nobj' = r.nobj
           /\ raised' = r.err
           /\ all_events' = r.events
           /\ pc' = IF r.err # "" THEN "error" ELSE "done"
    /\ UNCHANGED <<returned, last, gridVars, courseVars, separation_by_days>>

InitParse ==
    /\ EmptyRegistry
    /\ values = <<>>
    /\ merges = <<>>
    /\ steps = <<>>
    /\ df \in Sheets
    /\ pc = "parse"
    /\ raised = ""
    /\ NoCourse
    /\ NoParse

NextParse ==
    \/ ParseDf
    \/ ConvertSeparation

SpecParse == InitParse /\ [][NextParse]_vars

----------------------------------------------------------------------------
(* Claims on one course section *)

AllEmpty(lines) == \A k \in 1..Len(lines) : lines[k] = Empty

NonEmpty(lines) == SelectSeq(lines, LAMBDA l : l # Empty)

\* The event get_events_for_course yields for slot i and group column j
EventOf(i, j) == course_events[(i - 1) * Len(course_df.columns) + j]

\* The k-th smallest element of a set of numbers
KthOf(S, k) == CHOOSE x \in S : Cardinality({ y \in S : y < x }) = k - 1

\* C1: a (slot, group) whose cell texts are all empty does not stop the
\* building of events: exactly one event is emitted for it, with group, start
\* time and end time set and with no subject, instructor, location or type.
C1_EmptySlotYieldsBareEvent ==
    (pc \in {"done", "error"} /\ course_df # <<>> /\ raised # "ValueError") =>
        \A i \in 1..Len(course_df.index), j \in 1..Len(course_df.columns) :
            AllEmpty(course_df.data[i][j]) =>
                /\ raised = ""
                /\ Len(course_events) = Len(course_df.index) * Len(course_df.columns)
                /\ EventOf(i, j).group = <<format_group_name(course_df.columns[j])>>
                /\ EventOf(i, j).start_time # <<>>
                /\ EventOf(i, j).end_time # <<>>
                /\ EventOf(i, j).subject = <<>>
                /\ EventOf(i, j).instructor = <<>>
                /\ EventOf(i, j).location = <<>>
                /\ EventOf(i, j).event_type = <<>>

\* C2: a location line "1 (ONLY ON D/M)" is decoded to location "1" and the
\* override date day D, month M of the current year; a location line without
\* the annotation is taken as it is and sets no override date.
C2_OnlyOnDayMonth ==
    (pc \in {"done", "error"} /\ course_df # <<>> /\ raised # "RuntimeError") =>
        \A i \in 1..Len(course_df.index), j \in 1..Len(course_df.columns) :
            LET it == NonEmpty(course_df.data[i][j])
            IN  Len(it) >= 3 =>
                    /\ \A x \in OnlyOnDates :
                          it[3] = RoomOnlyOn(x[1], x[2]) =>
                              /\ raised = ""
                              /\ EventOf(i, j).location = <<Room>>
                              /\ EventOf(i, j).only_on_specific_date =
                                     <<[year |-> CURRENT_YEAR, month |-> x[2], day |-> x[1]]>>
                    /\ it[3] = Room =>
                          (raised = "" =>
                              /\ EventOf(i, j).location = <<Room>>
                              /\ EventOf(i, j).only_on_specific_date = <<>>)

\* C7: the rows of a course section that share a time-slot label, adjacent or
\* not, make exactly one slot record, and for each group column the record's
\* list holds that column's cells of exactly those rows, top to bottom.
C7_SlotRecordsKeepRows ==
    course_df # <<>> =>
        LET rows == course.slice.rows
            times == [r \in 1..Len(rows) |-> rows[r][1]]
        IN  /\ Range(course_df.index) = Range(times)
            /\ \A a, b \in 1..Len(course_df.index) :
                   course_df.index[a] = course_df.index[b] => a = b
            /\ course_df.columns = course.group_names
            /\ \A i \in 1..Len(course_df.index), j \in 1..Len(course_df.columns) :
                   LET rs == { r \in 1..Len(rows) : times[r] = course_df.index[i] }
                       l == course_df.data[i][j]
                   IN  /\ Len(l) = Cardinality(rs)
                       /\ \A k \in 1..Len(l) : l[k] = rows[KthOf(rs, k)][j + 1]

\* C7 witness: a label on rows 1 and 3 with another label between them, the
\* cells of the first group column all filled.
C7_Witness ==
    /\ course_df # <<>>
    /\ Len(course.slice.rows) = 3
    /\ course.slice.rows[1][1] = course.slice.rows[3][1]
    /\ course.slice.rows[1][1] # course.slice.rows[2][1]
    /\ \A r \in 1..3 : course.slice.rows[r][2] # Empty
    /\ Len(course_df.index) = 2

----------------------------------------------------------------------------
(* Claims on the whole sheet *)

\* parse_df has returned
Parsed == pc \in {"convert", "done"}

\* The day sections row r lies in
SectionsOf(r) ==
    { k \in 1..Len(DaySections(df)) : DaySections(df)[k][1] <= r /\ r < DaySections(df)[k][2] }

DayNameOfSection(k) == df[DaySections(df)[k][1]][0]

\* The rows of day section k below its weekday row
SlotRowsOf(k) == (DaySections(df)[k][1] + 1)..(DaySections(df)[k][2] - 1)

WeekRows == { r \in 0..(NRows(df) - 1) : IsDay(df[r][0]) }

\* Row r has a cell of a group column among the records stored under d
RowKept(d, r) ==
    \E a \in 1..Len(separation_by_days) :
        /\ separation_by_days[a].key = d
        /\ \E b \in 1..Len(separation_by_days[a].val) :
             \E i \in 1..Len(separation_by_days[a].val[b].val.data) :
               \E j \in 1..Len(separation_by_days[a].val[b].val.data[i]) :
                 \E m \in 1..Len(separation_by_days[a].val[b].val.data[i][j]) :
                   \E c \in 1..(NCols(df) - 1) :
                     /\ df[1][c] # Empty
                     /\ df[r][c] # Empty
                     /\ separation_by_days[a].val[b].val.data[i][j][m] = df[r][c]

\* C6 (as stated): once parse_df has returned, every row below the two header
\* rows lies in exactly one day section, and every day section has its rows
\* among the records stored under its weekday name.
C6_DaySectionsPartitionRows ==
    Parsed =>
        /\ \A r \in 2..(NRows(df) - 1) : Cardinality(SectionsOf(r)) = 1
        /\ \A k \in 1..Len(DaySections(df)) : \A r \in SlotRowsOf(k) :
               RowKept(DayNameOfSection(k), r)

\* C6 (amended): once parse_df has returned, the day sections partition the
\* rows from the first weekday row to the last row: each of them lies in
\* exactly one section, and the rows above the first weekday row lie in none.
\* The result has one entry per weekday name found, and a section has its
\* rows among the records under its name exactly when no later section
\* bears the same weekday name.
C6_SectionsPartitionFromFirstDay ==
    Parsed =>
        /\ \A r \in 0..(NRows(df) - 1) :
               Cardinality(SectionsOf(r)) =
                   IF \E w \in WeekRows : w <= r THEN 1 ELSE 0
        /\ Len(separation_by_days) = Cardinality({ df[w][0] : w \in WeekRows })
        /\ \A w \in WeekRows : \E a \in 1..Len(separation_by_days) :
               separation_by_days[a].key = df[w][0]
        /\ \A k \in 1..Len(DaySections(df)) : \A r \in SlotRowsOf(k) :
               RowKept(DayNameOfSection(k), r)
                   <=> ~\E k2 \in (k + 1)..Len(DaySections(df)) :
                           DayNameOfSection(k2) = DayNameOfSection(k)

\* C6 witness: parse_df has returned on a sheet whose first body row is not
\* a weekday row and that has two day sections of one weekday name, the
\* later of which holds its rows in the result.
C6_Witness ==
    /\ pc = "done"
    /\ 2 \notin WeekRows
    /\ \E k \in 1..Len(DaySections(df)) : \E k2 \in (k + 1)..Len(DaySections(df)) :
           /\ DayNameOfSection(k2) = DayNameOfSection(k)
           /\ SlotRowsOf(k) # {}
           /\ \A r \in SlotRowsOf(k2) : RowKept(DayNameOfSection(k2), r)
    /\ Len(all_events) > 0

\* The weekday name an event's date was computed from
DayNameOf(e) ==
    CHOOSE d \in Range(DAYS) : nearest_weekday(very_first_date, weekday_converter(d)) = e.day[1]

\* The first row that bears the event's weekday name
DayRank(e) == Min({ r \in WeekRows : df[r][0] = DayNameOf(e) })

\* The first column at which a course section of the event's course starts
CourseRank(e) ==
    Min({ c \in 0..(NCols(df) - 2) : IsDay(df[Min(WeekRows)][c]) /\ df[0][c + 1] = e.course[1] })

\* The time-slot label the event's times were read from
LabelOf(e) ==
    CHOOSE l \in TimeLabels :
        /\ ParseTimeslot(l).start_time = e.start_time[1]
        /\ ParseTimeslot(l).end_time = e.end_time[1]

\* The column of the event's group
GroupRank(e) ==
    CHOOSE c \in 1..(NCols(df) - 1) :
        df[1][c] # Empty /\ format_group_name(df[1][c]) = e.group[1]

\* The first row of the event's label in the last day section of its weekday
FirstSeenRank(e) ==
    LET k == Max({ k \in 1..Len(DaySections(df)) : DayNameOfSection(k) = DayNameOf(e) })
    IN  Min({ r \in SlotRowsOf(k) : df[r][0] = LabelOf(e) })

\* The number of labels that sort before the event's label
LabelRank(e) == Cardinality({ l \in TimeLabels : StrLess(l, LabelOf(e)) })

LexLess(a, b) ==
    \E i \in 1..Len(a) : a[i] < b[i] /\ \A k \in 1..(i - 1) : a[k] = b[k]

KeySeen(e) == <<DayRank(e), CourseRank(e), FirstSeenRank(e), GroupRank(e)>>

KeySorted(e) == <<DayRank(e), CourseRank(e), LabelRank(e), GroupRank(e)>>

\* C8 (as stated): the events come out ordered by day section, then course
\* section, then time slot in the order the slots are first seen going down
\* the rows, then group column.
C8_SlotsInFirstSeenOrder ==
    pc = "done" =>
        \A i \in 1..(Len(all_events) - 1) :
            LexLess(KeySeen(all_events[i]), KeySeen(all_events[i + 1]))

\* C8 (amended): the events come out ordered by day (in the order the
\* weekday names are first seen), then course section, then time slot in
\* ascending order of the label text compared as a string, then group column.
C8_SlotsInLabelOrder ==
    pc = "done" =>
        \A i \in 1..(Len(all_events) - 1) :
            LexLess(KeySorted(all_events[i]), KeySorted(all_events[i + 1]))

\* C8 witness: events of two days and two courses have come out, and those
\* of one course of one day are not in the order their slots are first seen.
C8_Witness ==
    /\ pc = "done"
    /\ Cardinality({ all_events[i].day : i \in 1..Len(all_events) }) = 2
    /\ Cardinality({ all_events[i].course : i \in 1..Len(all_events) }) = 2
    /\ \E i \in 1..(Len(all_events) - 1) :
           /\ all_events[i].day = all_events[i + 1].day
           /\ all_events[i].course = all_events[i + 1].course
           /\ FirstSeenRank(all_events[i + 1]) < FirstSeenRank(all_events[i])

\* The course sections of day section k
SectionsOfDay(k) == CourseSections(df, DaySections(df)[k][1])

\* The course name section i of day section k is stored under
CourseNameOfSection(k, i) == df[0][SectionsOfDay(k)[i][1] + 1]

\* The columns of section i of day section k right of its time column
GroupColsOf(k, i) == (SectionsOfDay(k)[i][1] + 1)..(SectionsOfDay(k)[i][2] - 1)

\* The columns at which the course name of row 0 changes, column 1 included
NameChanges == { c \in 1..(NCols(df) - 1) : c = 1 \/ df[0][c] # df[0][c - 1] }

\* Day section k is the last one of its weekday name
LastOfDayName(k) ==
    ~\E k2 \in (k + 1)..Len(DaySections(df)) : DayNameOfSection(k2) = DayNameOfSection(k)

\* The cell of row r and column c is in the list of its group among the
\* records stored under day name d and course name cn
CellKept(d, cn, r, c) ==
    \E a \in 1..Len(separation_by_days) :
        /\ separation_by_days[a].key = d
        /\ \E b \in 1..Len(separation_by_days[a].val) :
             /\ separation_by_days[a].val[b].key = cn
             /\ \E i \in 1..Len(separation_by_days[a].val[b].val.data) :
                  \E j \in 1..Len(separation_by_days[a].val[b].val.columns) :
                    /\ separation_by_days[a].val[b].val.columns[j] = df[1][c]
                    /\ \E m \in 1..Len(separation_by_days[a].val[b].val.data[i][j]) :
                         separation_by_days[a].val[b].val.data[i][j][m] = df[r][c]

\* C11 (as stated): once parse_df has returned, in every day section the
\* course sections begin where the course name of row 0 changes (the name
\* being read in the column right of a section's first column), every
\* column right of column 0 that is not the first of a section lies in
\* exactly one section, and the cells of every course section are kept
\* under the section's course name.
C11_SectionsAtNameChanges ==
    Parsed =>
        \A k \in 1..Len(DaySections(df)) :
            /\ { SectionsOfDay(k)[i][1] + 1 : i \in 1..Len(SectionsOfDay(k)) } = NameChanges
            /\ \A c \in 1..(NCols(df) - 1) :
                   Cardinality({ i \in 1..Len(SectionsOfDay(k)) :
                                   SectionsOfDay(k)[i][1] <= c /\ c < SectionsOfDay(k)[i][2] }) = 1
            /\ LastOfDayName(k) =>
                   \A i \in 1..Len(SectionsOfDay(k)) :
                       \A r \in SlotRowsOf(k) : \A c \in GroupColsOf(k, i) :
                           CellKept(DayNameOfSection(k), CourseNameOfSection(k, i), r, c)

\* C11 (amended): once parse_df has returned, in every day section the
\* course sections begin at the columns whose cell in the day section's
\* first row is a weekday name, every column lies in exactly one of them,
\* and the cells of a course section are kept under the row-0 name of the
\* column right of its first column exactly when no later course section of
\* the day is stored under the same name.
C11_SectionsAtWeekdayCells ==
    Parsed =>
        \A k \in 1..Len(DaySections(df)) :
            /\ { SectionsOfDay(k)[i][1] : i \in 1..Len(SectionsOfDay(k)) }
                   = { c \in 0..(NCols(df) - 1) : IsDay(df[DaySections(df)[k][1]][c]) }
            /\ \A c \in 0..(NCols(df) - 1) :
                   Cardinality({ i \in 1..Len(SectionsOfDay(k)) :
                                   SectionsOfDay(k)[i][1] <= c /\ c < SectionsOfDay(k)[i][2] }) = 1
            /\ LastOfDayName(k) =>
                   \A i \in 1..Len(SectionsOfDay(k)) :
                       \A r \in SlotRowsOf(k) : \A c \in GroupColsOf(k, i) :
                           CellKept(DayNameOfSection(k), CourseNameOfSection(k, i), r, c)
                               <=> ~\E i2 \in (i + 1)..Len(SectionsOfDay(k)) :
                                       CourseNameOfSection(k, i2) = CourseNameOfSection(k, i)

\* C11 witness: the events have come out of a sheet with a day of two course
\* sections stored under one course name, whose starts are not where the
\* course name of row 0 changes; the later section's cells are kept.
C11_Witness ==
    /\ pc = "done"
    /\ Len(all_events) > 0
    /\ \E k \in 1..Len(DaySections(df)) :
           /\ LastOfDayName(k)
           /\ Len(SectionsOfDay(k)) = 2
           /\ CourseNameOfSection(k, 1) = CourseNameOfSection(k, 2)
           /\ { SectionsOfDay(k)[i][1] + 1 : i \in 1..2 } # NameChanges
           /\ \A r \in SlotRowsOf(k) : \A c \in GroupColsOf(k, 2) :
                  CellKept(DayNameOfSection(k), CourseNameOfSection(k, 2), r, c)

\* The unnamed columns that are not the first column of a course section
SpacerCols ==
    { c \in 1..(NCols(df) - 1) : df[1][c] = Empty /\ \A w \in WeekRows : ~IsDay(df[w][c]) }

\* The (day section, course section, slot label, named group column)
\* combinations whose records are not replaced by a later section
KeptSlots ==
    { x \in (1..NRows(df)) \X (1..NCols(df)) \X TimeLabels \X (1..(NCols(df) - 1)) :
        /\ x[1] <= Len(DaySections(df)) /\ LastOfDayName(x[1])
        /\ x[2] <= Len(SectionsOfDay(x[1]))
        /\ ~\E i2 \in (x[2] + 1)..Len(SectionsOfDay(x[1])) :
               CourseNameOfSection(x[1], i2) = CourseNameOfSection(x[1], x[2])
        /\ \E r \in SlotRowsOf(x[1]) : df[r][0] = x[3]
        /\ x[4] \in GroupColsOf(x[1], x[2]) /\ df[1][x[4]] # Empty }

\* C12 (as stated): on a sheet with a day section and a spacer column,
\* parse_df returns without an error, every named group column keeps its
\* cells under its own group name, and the events that come out are one per
\* slot and named group column, none for the spacer column.
C12_SpacerColumnDropped ==
    (pc # "parse" /\ WeekRows # {} /\ SpacerCols # {}) =>
        /\ Parsed /\ raised = ""
        /\ \A x \in KeptSlots : \A r \in SlotRowsOf(x[1]) :
               CellKept(DayNameOfSection(x[1]), CourseNameOfSection(x[1], x[2]), r, x[4])
        /\ pc = "done" => Len(all_events) = Cardinality(KeptSlots)

----------------------------------------------------------------------------
(* Claims on the grid normalizer *)

FullyInside(m) == m.x1 <= max_x /\ m.y1 <= max_y

OriginInside(m) == m.x0 < max_x /\ m.y0 < max_y

Rect(m) == { <<r, c>> : r \in m.x0..(m.x1 - 1), c \in m.y0..(m.y1 - 1) }

\* A missing cell reads as an empty one.
Shown(v) == IF v = NaN THEN Empty ELSE v

\* The value the origin of the i-th range held before the merges were applied
OriginBefore(i) == Shown(steps[1][merges[i].x0][merges[i].y0])

AllInside == \A i \in 1..Len(merges) : FullyInside(merges[i])

NoOverlap ==
    \A i, j \in 1..Len(merges) : i # j => Rect(merges[i]) \cap Rect(merges[j]) = {}

\* C5 as claimed: with all ranges fully inside the grid, after normalization
\* every cell of every range equals the value the range's origin held before
\* the merges were applied.
C5_RangeHoldsOriginValue ==
    (pc = "ready" /\ AllInside) =>
        \A i \in 1..Len(merges) : \A p \in Rect(merges[i]) :
            df[p[1]][p[2]] = OriginBefore(i)

\* C5 as amended: with ranges fully inside the grid that do not overlap each
\* other, after normalization every cell of every range equals the value the
\* range's origin held before the merges; where that value is empty, the
\* range's cells of row 0 in columns >= 1 hold the forward-filled value of
\* their left neighbour instead.
C5_DisjointRangeHoldsOriginValue ==
    (pc = "ready" /\ AllInside /\ NoOverlap) =>
        \A i \in 1..Len(merges) : \A p \in Rect(merges[i]) :
            IF OriginBefore(i) = Empty /\ p[1] = 0 /\ p[2] >= 1
            THEN df[0][p[2]] = df[0][p[2] - 1]
            ELSE df[p[1]][p[2]] = OriginBefore(i)

\* C5 witness: two disjoint ranges inside the grid were merged, one spreading
\* a text and one with an empty origin whose row-0 cell was forward-filled.
C5_Witness ==
    /\ pc = "ready"
    /\ Len(merges) = 2
    /\ AllInside /\ NoOverlap
    /\ \E i, j \in 1..2 :
          /\ OriginBefore(i) # Empty
          /\ \E p \in Rect(merges[i]) : steps[1][p[1]][p[2]] # steps[1][merges[i].x0][merges[i].y0]
          /\ OriginBefore(j) = Empty
          /\ \E p \in Rect(merges[j]) : p[1] = 0 /\ p[2] >= 1 /\ df[0][p[2]] # Empty

\* C10 as claimed: a range that touches a coordinate outside the grid (its
\* origin or its end) leaves every cell as it was.
C10_TouchingRangeSkipped ==
    pc = "ready" =>
        \A i \in 1..Len(merges) :
            ~FullyInside(merges[i]) => steps[i + 1] = steps[i]

\* C10 as amended: a range whose origin lies outside the grid is skipped and
\* leaves every cell as it was; a range whose origin is inside is applied
\* even when its end lies outside: it is clipped, every cell of the rectangle
\* that is in the grid takes the origin's value and no other cell changes.
\* The ranges are applied in the order given.
C10_OriginDecidesClipped ==
    pc = "ready" =>
        /\ Len(steps) = Len(merges) + 1
        /\ \A i \in 1..Len(merges) :
              LET m == merges[i]
                  g == steps[i]
                  h == steps[i + 1]
              IN  IF OriginInside(m)
                  THEN \A r \in 0..(max_x - 1), c \in 0..(max_y - 1) :
                           h[r][c] = IF <<r, c>> \in Rect(m) THEN g[m.x0][m.y0] ELSE g[r][c]
                  ELSE h = g

\* C10 witness: a range with its origin inside and its end outside was
\* clipped and changed the grid, and a range with its origin outside was
\* skipped after it.
C10_Witness ==
    /\ pc = "ready"
    /\ Len(merges) = 2
    /\ OriginInside(merges[1]) /\ ~FullyInside(merges[1])
    /\ steps[2] # steps[1]
    /\ ~OriginInside(merges[2])
    /\ steps[3] = steps[2]

----------------------------------------------------------------------------
(* Claims on the Subject registry *)

\* C3: any two raw titles that differ only in a parenthetical annotation
\* and/or a " - free text" suffix (built on the same bare title) are
\* canonicalized to the identical Subject, whose name is the bare title.
C3_SameBareSameSubject ==
    \A r1, r2 \in returned :
        BareOf(r1.raw) = BareOf(r2.raw) =>
            r1.subj = r2.subj /\ r1.subj.name = BareOf(r1.raw)

\* C4: normalization is idempotent: the name of every Subject normalizes to
\* itself, so canonicalizing the name of a registered Subject returns that
\* Subject and adds no entry.
C4_NormalizeIdempotent ==
    /\ \A r \in returned : Normalize(r.subj.name) = r.subj.name
    /\ (last.op = "from_str" /\ last.arg \in Keys(last.pre)) =>
           instances = last.pre /\ last.ret = <<Lookup(last.pre, last.arg)>>

\* C9: the registry holds exactly one Subject per distinct normalized name
\* canonicalized so far, each under a key equal to its name; calls whose
\* inputs normalize to the same string got the same instance, which is still
\* the one stored; get and get_all leave the registry as it was, get of an
\* unknown name returns not-found, and get_all lists the Subjects in order of
\* first creation.
C9_RegistryInvariant ==
    /\ \A i, j \in 1..Len(instances) : instances[i].key = instances[j].key => i = j
    /\ \A i \in 1..Len(instances) : instances[i].subj.name = instances[i].key
    /\ Keys(instances) = { Normalize(r.raw) : r \in returned }
    /\ \A r1, r2 \in returned :
           Normalize(r1.raw) = Normalize(r2.raw) => r1.subj = r2.subj
    /\ \A r \in returned :
           \E i \in 1..Len(instances) :
               instances[i].key = Normalize(r.raw) /\ instances[i].subj = r.subj
    /\ last.op \in {"get", "get_all"} => instances = last.pre
    /\ last.op = "get" =>
           /\ last.arg \notin Keys(last.pre) => last.ret = <<NotFound>>
           /\ last.arg \in Keys(last.pre) =>
                  \E i \in 1..Len(last.pre) :
                      last.pre[i].key = last.arg /\ last.ret = <<last.pre[i].subj>>
    /\ last.op = "get_all" =>
           /\ Len(last.ret) = Len(last.pre)
           /\ \A i \in 1..Len(last.ret) : last.ret[i] = last.pre[i].subj
           /\ \A i, j \in 1..Len(last.ret) : i < j => last.ret[i].id < last.ret[j].id
    /\ last.op = "from_str" =>
           /\ Len(last.pre) <= Len(instances)
           /\ \A i \in 1..Len(last.pre) : instances[i] = last.pre[i]

\* C9 witness: two raw titles of one normalized name were canonicalized after
\* another name, and get_all listed the two Subjects.
C9_Witness ==
    /\ last.op = "get_all"
    /\ Len(last.ret) = 2
    /\ \E r1, r2 \in returned : r1.raw # r2.raw

====
